---- MODULE Spec2Model ----
(***************************************************************************)
(* Build or Boom Card Creator (src/script.js) as a state machine.          *)
(*                                                                         *)
(* The state is the part of the DOM the script reads and writes (the       *)
(* placed shapes with their style and dataset attributes, the supply list, *)
(* the palette items' opacity, the context menu) together with the fields  *)
(* of the manager objects and the callbacks that are scheduled but have    *)
(* not run yet.  There is one action per event handler or callback.        *)
(*                                                                         *)
(* Coordinates are CSS pixels.  The model uses integer pixels; the build   *)
(* area has an even width and height so that the centre used by tap-to-add *)
(* is an integer too.  One pointer is active at a time (no multi-touch).   *)
(***************************************************************************)
EXTENDS Integers, Sequences, FiniteSets, TLC

----------------------------------------------------------------------------
(* CONFIG and SHAPE_NAMES *)

GRID_SIZE == 20

DRAG_THRESHOLD == 5

ShapeTypes ==
  {"square", "triangle", "half-moon", "cone", "2x4", "arch", "beam",
   "foreman", "barrel-cylinder", "barrel-circle"}

Size(w, h) == [width |-> w, height |-> h]

SHAPE_SIZES ==
  [t \in ShapeTypes |->
     CASE t \in {"square", "triangle", "half-moon", "barrel-circle"} -> Size(80, 80)
       [] t = "cone" -> Size(80, 40)
       [] t \in {"2x4", "arch", "beam"} -> Size(240, 80)
       [] t = "foreman" -> Size(160, 160)
       [] t = "barrel-cylinder" -> Size(80, 160)]

\* CONFIG.SHAPE_SIZES[shapeType] || { width: 80, height: 80 }
ShapeSize(shapeType) ==
  IF shapeType \in DOMAIN SHAPE_SIZES THEN SHAPE_SIZES[shapeType] ELSE Size(80, 80)

SHAPE_NAMES ==
  [t \in ShapeTypes |->
     CASE t = "2x4" -> "2x4"
       [] t = "triangle" -> "Triangle"
       [] t = "arch" -> "Arch"
       [] t \in {"barrel-cylinder", "barrel-circle"} -> "Barrel"
       [] t = "half-moon" -> "Half Moon"
       [] t = "cone" -> "Cone"
       [] t = "beam" -> "Beam"
       [] t = "square" -> "Square"
       [] t = "foreman" -> "The Foreman"]

\* SHAPE_NAMES[shapeType] || 'Unknown'
DisplayName(shapeType) ==
  IF shapeType \in DOMAIN SHAPE_NAMES THEN SHAPE_NAMES[shapeType] ELSE "Unknown"

\* The palette of index.html: the elements carrying data-shape, each with a
\* .shape-svg child.
PaletteTypes == ShapeTypes

----------------------------------------------------------------------------
(* Bounds of the model *)

\* Shapes in the build area at one time.
MaxShapes == 2

\* Largest top coordinate a move may produce (the code has no lower edge).
MaxTop == 120

\* Callbacks of one kind that may be pending at one time.
MaxPending == 1

\* Range of the inputs of the snapToGrid specification.
MaxCoord == 130

\* The nodes the document may lack at one time.
MaxMissing == 2

\* The shapes counted in the start-up specification.
MaxPageShapes == 2

\* The clicks on the print button in the capture specification.
MaxPrints == 3

----------------------------------------------------------------------------
(* Utils *)

Abs(v) == IF v < 0 THEN -v ELSE v

Max(a, b) == IF a > b THEN a ELSE b

Min(a, b) == IF a < b THEN a ELSE b

\* Math.round(n / d) for d > 0: the nearest integer, a tie going up.
MathRound(n, d) == (2 * n + d) \div (2 * d)

snapToGridFloor(value) == (value \div GRID_SIZE) * GRID_SIZE

snapToGrid(value) == MathRound(value, GRID_SIZE) * GRID_SIZE

----------------------------------------------------------------------------
(* State *)

VARIABLES
  buildArea,  \* #build-area: getBoundingClientRect() and clientWidth
  inputs,     \* the events' inputs the environment draws from
  elems,      \* the shape elements the script still holds: id -> element
  placed,     \* the .dropped-shape children of the build area, document order
  supply,     \* #supply-list-content as rendered: display name -> count
  ddm,        \* the DragDropManager's fields
  opacity,    \* the opacity of each palette item ('' shows as 1)
  menu,       \* the ContextMenuManager's fields and its menu element
  timers,     \* callbacks scheduled and not yet run
  browser,    \* the gesture in progress, as the browser tracks it
  lastOp,     \* history: the handler that ran last and the shape it was about
  snapIn,     \* input of Utils.snapToGrid (the snapToGrid specification)
  snapOut,    \* its results
  page,       \* the nodes of the document and what start-up made of them
  capture     \* PrintManager's capture of the card as an image, in progress

vars ==
  <<buildArea, inputs, elems, placed, supply, ddm, opacity, menu, timers,
    browser, lastOp, snapIn, snapOut, page, capture>>

\* null, for a palette item, and for a shape element
NoItem == "null"

NoShape == 0

\* null, for a position <<x, y>>
NoPos == <<>>

\* dataset.rotation not set
NoRotation == -1

\* svg.style.transform: '' | rotate(<deg>deg) | rotate(<rot>) scale(<sx>, <sy>)
NoTransform == [kind |-> "none", deg |-> 0, sx |-> 1, sy |-> 1]

RotateTransform(deg) == [kind |-> "rotate", deg |-> deg, sx |-> 1, sy |-> 1]

RotateScaleTransform(deg, sx, sy) ==
  [kind |-> "rotate-scale", deg |-> deg, sx |-> sx, sy |-> sy]

\* A ShapeController between gestures.  startX, startY, initialX and
\* initialY are read only while isDragging, which only handleMoveStart sets,
\* after writing all four: the model clears them when a gesture ends.
IdleController ==
  [isDragging |-> FALSE, hasDragged |-> FALSE, startEvent |-> "null",
   startX |-> 0, startY |-> 0, initialX |-> 0, initialY |-> 0]

\* The program state the handlers read and write.
State ==
  [elems |-> elems, placed |-> placed, supply |-> supply, ddm |-> ddm,
   opacity |-> opacity, menu |-> menu, timers |-> timers, browser |-> browser]

SeqToSet(q) == {q[i] : i \in 1..Len(q)}

RECURSIVE SelectSeqNot(_, _)
\* The sequence q without the members of the set gone.
SelectSeqNot(q, gone) ==
  IF q = <<>> THEN <<>>
  ELSE IF Head(q) \in gone THEN SelectSeqNot(Tail(q), gone)
       ELSE <<Head(q)>> \o SelectSeqNot(Tail(q), gone)

\* The id of the next element created.
generateId(s) ==
  CHOOSE i \in 1..(Cardinality(DOMAIN s.elems) + 1) : i \notin DOMAIN s.elems

\* The elements still referenced: in the document, by a callback, by the
\* context menu or by a gesture in progress.
Referenced(s) ==
  SeqToSet(s.placed)
    \cup {s.timers.ctx[i].shape : i \in 1..Len(s.timers.ctx)}
    \cup ({s.menu.currentShape} \ {NoShape})
    \cup {i \in DOMAIN s.elems : s.elems[i].ctl.isDragging}

----------------------------------------------------------------------------
(* ShapeFactory *)

Null == [null |-> TRUE]

\* The DOMException querySelector throws for a selector it cannot parse.
SyntaxError == [error |-> "SyntaxError"]

\* Texts that end the quoted value of [data-shape="..."] and leave the
\* selector unparsable (a double quote; a line break or a backslash do the
\* same).
UnparsableTexts == {"say \"hi\""}

\* Texts that end the quoted value and go on with a selector list: the
\* selector [data-shape="x"],body,[x=""] is valid and matches <body>.
ListTexts == {"x\"],body,[x=\""}

\* Texts that stay inside the quoted value and name no palette item.
PlainTexts == {"", "hello"}

Element(name) == [element |-> name]

\* document.querySelector(`[data-shape="${shapeType}"]`): the first
\* matching element, null, or a SyntaxError.
querySelectorShape(shapeType) ==
  CASE shapeType \in PaletteTypes -> Element(shapeType)
    [] shapeType \in UnparsableTexts -> SyntaxError
    [] shapeType \in ListTexts -> Element("body")
    [] OTHER -> Null

\* getDefinition: the element found holds a .shape-svg (a palette item
\* does; <body> does when the palette is not empty).
getDefinition(shapeType) ==
  LET paletteItem == querySelectorShape(shapeType)
  IN CASE paletteItem = SyntaxError -> SyntaxError
       [] paletteItem = Null -> Null
       [] paletteItem = Element("body") /\ PaletteTypes = {} -> Null
       [] OTHER -> ShapeSize(shapeType)

\* create's position: bound, then snap.
ShapeFactoryLeft(x, shapeData) ==
  snapToGrid(Max(0, Min(x, buildArea.width - shapeData.width)))

ShapeFactoryTop(y) == snapToGrid(Max(0, y))

ShapeFactoryCreate(shapeType, x, y) ==
  LET shapeData == getDefinition(shapeType)
  IN IF shapeData = Null \/ shapeData = SyntaxError THEN shapeData
     ELSE [shapeType |-> shapeType,
           left |-> ShapeFactoryLeft(x, shapeData),
           top |-> ShapeFactoryTop(y),
           rotation |-> NoRotation,
           transform |-> NoTransform,
           selected |-> FALSE,
           ctl |-> IdleController]

----------------------------------------------------------------------------
(* SupplyListManager *)

\* countShapes: display name -> number of shapes, for the names that occur.
countShapes(s, shapes) ==
  LET names == {DisplayName(s.elems[shapes[i]].shapeType) : i \in 1..Len(shapes)}
  IN [n \in names |->
        Cardinality({i \in 1..Len(shapes) :
                       DisplayName(s.elems[shapes[i]].shapeType) = n})]

\* update: count every .dropped-shape of the document and render the counts.
SupplyListUpdate(s) == [s EXCEPT !.supply = countShapes(s, s.placed)]

----------------------------------------------------------------------------
(* ContextMenuManager *)

hide(s) ==
  IF s.menu.created
  THEN [s EXCEPT !.menu.show = FALSE,
                 !.menu.currentShape = NoShape,
                 !.menu.listening = FALSE]
  ELSE s

\* show: the animation-frame callback and the timer that installs the
\* outside-click listeners are scheduled, not run.
show(s, shape) ==
  LET h == hide(s)
  IN [h EXCEPT !.menu.created = TRUE,
               !.menu.currentShape = shape,
               !.timers.raf = @ + 1,
               !.timers.outside = @ + 1]

\* The callback of show's requestAnimationFrame.
showFrame(s) == [s EXCEPT !.menu.show = TRUE, !.timers.raf = @ - 1]

\* The callback of show's setTimeout.
showListen(s) == [s EXCEPT !.menu.listening = TRUE, !.timers.outside = @ - 1]

\* handleOutsideClick, for a target outside the menu; onShape: the target
\* is inside a .dropped-shape.
handleOutsideClick(s, onShape) ==
  IF s.menu.created /\ ~onShape THEN hide(s) ELSE s

\* A click or touchstart that reaches the document.
documentEvent(s, onShape) ==
  IF s.menu.listening THEN handleOutsideClick(s, onShape) ELSE s

\* parseInt(element.dataset.rotation || '0')
parseRotation(el) == IF el.rotation = NoRotation THEN 0 ELSE el.rotation

nextRotationNoWrap(el) == parseRotation(el) + 90

nextRotation(el) == (parseRotation(el) + 90) % 360

\* getShapeController(element).rotate and ShapeController.rotate
rotate(s, id) ==
  LET r == nextRotation(s.elems[id])
  IN [s EXCEPT !.elems[id].rotation = r,
               !.elems[id].transform = RotateTransform(r)]

\* currentTransform.match(/rotate\\(([^)]+)\\)/): the pattern asks for a
\* backslash after "rotate" and another before the closing parenthesis; no
\* transform the script writes holds one, so there is no match.
rotateMatch(transform) == Null

\* currentTransform.match(/scale\\(([^)]+)\\)/), likewise.
scaleMatch(transform) == Null

\* getShapeController(element).flip
flip(s, id, direction) ==
  LET t == s.elems[id].transform
      rotation == IF rotateMatch(t) = Null THEN 0 ELSE rotateMatch(t).deg
      scaleX == IF scaleMatch(t) = Null THEN 1 ELSE scaleMatch(t).sx
      scaleY == IF scaleMatch(t) = Null THEN 1 ELSE scaleMatch(t).sy
      newX == IF direction = "horizontal" THEN -scaleX ELSE scaleX
      newY == IF direction = "vertical" THEN -scaleY ELSE scaleY
  IN [s EXCEPT !.elems[id].transform = RotateScaleTransform(rotation, newX, newY)]

\* getShapeController(element).destroy: element.remove(), then shapeRemoved.
destroy(s, id) ==
  SupplyListUpdate([s EXCEPT !.placed = SelectSeqNot(@, {id})])

MenuActions == {"rotate", "flip-horizontal", "flip-vertical", "delete"}

\* A mistaken handleAction: the flip-vertical case lacks its break and
\* falls through to delete.
handleActionFallThrough(s, action) ==
  IF s.menu.currentShape = NoShape THEN s
  ELSE LET id == s.menu.currentShape
           done == CASE action = "rotate" -> rotate(s, id)
                     [] action = "flip-horizontal" -> flip(s, id, "horizontal")
                     [] action = "flip-vertical" ->
                          destroy(flip(s, id, "vertical"), id)
                     [] action = "delete" -> destroy(s, id)
       IN hide(done)

handleAction(s, action) ==
  IF s.menu.currentShape = NoShape THEN s
  ELSE LET id == s.menu.currentShape
           done == CASE action = "rotate" -> rotate(s, id)
                     [] action = "flip-horizontal" -> flip(s, id, "horizontal")
                     [] action = "flip-vertical" -> flip(s, id, "vertical")
                     [] action = "delete" -> destroy(s, id)
       IN hide(done)

----------------------------------------------------------------------------
(* DragDropManager *)

\* An exception leaves the event's listener: the browser reports it.
Uncaught(s, where) == [s EXCEPT !.browser.uncaught = @ \cup {where}]

\* createShape: the element is appended to the build area and shapeAdded
\* is emitted, whose listener updates the supply list.
createShapeNoUpdate(s, shapeType, x, y) ==
  LET shape == ShapeFactoryCreate(shapeType, x, y)
      id == generateId(s)
  IN IF shape = Null THEN s
     ELSE IF shape = SyntaxError THEN Uncaught(s, "ShapeFactory.getDefinition")
     ELSE [s EXCEPT !.elems = (id :> shape) @@ @, !.placed = Append(@, id)]

createShape(s, shapeType, x, y) ==
  LET shape == ShapeFactoryCreate(shapeType, x, y)
      id == generateId(s)
  IN IF shape = Null THEN s
     ELSE IF shape = SyntaxError THEN Uncaught(s, "ShapeFactory.getDefinition")
     ELSE SupplyListUpdate(
            [s EXCEPT !.elems = (id :> shape) @@ @, !.placed = Append(@, id)])

handleDragStart(s, item) ==
  [s EXCEPT !.ddm.draggedElement = item,
            !.opacity[item] = "0.5",
            !.browser.dataTransfer = item]

handleDragEnd(s, item) ==
  [s EXCEPT !.opacity[item] = "1", !.ddm.draggedElement = NoItem]

\* A mistaken handleDrop: the shape's corner, not its centre, is put under
\* the pointer.
handleDropCorner(s, clientX, clientY) ==
  LET shapeType == s.browser.dataTransfer
      rawX == clientX - buildArea.left
      rawY == clientY - buildArea.top
  IN createShape(s, shapeType, snapToGrid(rawX), snapToGrid(rawY))

handleDrop(s, clientX, clientY) ==
  LET shapeType == s.browser.dataTransfer
      shapeSize == ShapeSize(shapeType)
      rawX == clientX - buildArea.left - shapeSize.width \div 2
      rawY == clientY - buildArea.top - shapeSize.height \div 2
  IN createShape(s, shapeType, snapToGrid(rawX), snapToGrid(rawY))

handleTouchStartNoPrevent(s, item, pos) ==
  [s EXCEPT !.ddm.touchDraggedElement = item,
            !.ddm.touchStartPos = pos,
            !.ddm.isDragging = FALSE,
            !.opacity[item] = "0.7"]

handleTouchStart(s, item, pos) ==
  [s EXCEPT !.ddm.touchDraggedElement = item,
            !.ddm.touchStartPos = pos,
            !.ddm.isDragging = FALSE,
            !.opacity[item] = "0.7",
            !.browser.prevented = TRUE]

\* A mistaken handleTouchMove: the flag follows the finger's last distance.
handleTouchMoveLast(s, pos) ==
  IF s.ddm.touchDraggedElement = NoItem THEN s
  ELSE LET deltaX == Abs(pos[1] - s.ddm.touchStartPos[1])
           deltaY == Abs(pos[2] - s.ddm.touchStartPos[2])
       IN [s EXCEPT !.ddm.isDragging =
                       deltaX > DRAG_THRESHOLD \/ deltaY > DRAG_THRESHOLD]

handleTouchMove(s, pos) ==
  IF s.ddm.touchDraggedElement = NoItem THEN s
  ELSE LET deltaX == Abs(pos[1] - s.ddm.touchStartPos[1])
           deltaY == Abs(pos[2] - s.ddm.touchStartPos[2])
       IN IF deltaX > DRAG_THRESHOLD \/ deltaY > DRAG_THRESHOLD
          THEN [s EXCEPT !.ddm.isDragging = TRUE]
          ELSE s

isOverBuildArea(pos) ==
  /\ pos[1] >= buildArea.left
  /\ pos[1] <= buildArea.left + buildArea.width
  /\ pos[2] >= buildArea.top
  /\ pos[2] <= buildArea.top + buildArea.height

\* handleTapToAdd; offset: the two values of (Math.random() - 0.5) * 40.
handleTapToAdd(s, item, offset) ==
  LET shapeSize == ShapeSize(item)
      centerX == buildArea.width \div 2 - shapeSize.width \div 2
      centerY == buildArea.height \div 2 - shapeSize.height \div 2
  IN createShape(s, item, snapToGrid(centerX + offset[1]),
                 snapToGrid(centerY + offset[2]))

handleTapToAddTouch(s, item, offset) ==
  LET shapeSize == ShapeSize(item)
      centerX == buildArea.width \div 2 - shapeSize.width \div 2
      centerY == buildArea.height \div 2 - shapeSize.height \div 2
  IN createShape(s, item, snapToGrid(centerX + offset[1]),
                 snapToGrid(centerY + offset[2]))

\* handleTouchEnd; pos: changedTouches[0], where the finger was lifted.
handleTouchEnd(s, pos, offset) ==
  IF s.ddm.touchDraggedElement = NoItem THEN s
  ELSE LET item == s.ddm.touchDraggedElement
           shapeSize == ShapeSize(item)
           rawX == pos[1] - buildArea.left - shapeSize.width \div 2
           rawY == pos[2] - buildArea.top - shapeSize.height \div 2
           done == IF s.ddm.isDragging
                   THEN IF isOverBuildArea(pos)
                        THEN createShape(s, item, snapToGrid(rawX), snapToGrid(rawY))
                        ELSE s
                   ELSE handleTapToAddTouch(s, item, offset)
       IN [done EXCEPT !.opacity[item] = "1",
                       !.ddm.touchDraggedElement = NoItem,
                       !.ddm.touchStartPos = NoPos,
                       !.ddm.isDragging = FALSE]

----------------------------------------------------------------------------
(* ShapeController *)

\* startEvent: "mousedown" or "touchstart".  parseInt(style.left) || 0 is
\* the left the script wrote.
handleMoveStart(s, id, startEvent, clientX, clientY) ==
  [s EXCEPT !.elems[id].ctl =
     [isDragging |-> TRUE, hasDragged |-> FALSE, startEvent |-> startEvent,
      startX |-> clientX, startY |-> clientY,
      initialX |-> s.elems[id].left, initialY |-> s.elems[id].top]]

\* handleMove's position: snap, then bound.
moveLeftSnapLast(snappedX, shapeSize) ==
  snapToGrid(Max(0, Min(snappedX, buildArea.width - shapeSize.width)))

moveLeft(snappedX, shapeSize) ==
  Max(0, Min(snappedX, buildArea.width - shapeSize.width))

moveTopUnbounded(snappedY) == snappedY

moveTop(snappedY) == Max(0, snappedY)

handleMove(s, id, clientX, clientY) ==
  LET el == s.elems[id]
      dx == clientX - el.ctl.startX
      dy == clientY - el.ctl.startY
      snappedX == snapToGrid(el.ctl.initialX + dx)
      snappedY == snapToGrid(el.ctl.initialY + dy)
      shapeSize == ShapeSize(el.shapeType)
  IN IF ~el.ctl.isDragging THEN s
     ELSE IF Abs(dx) > DRAG_THRESHOLD \/ Abs(dy) > DRAG_THRESHOLD
          THEN [s EXCEPT !.elems[id].ctl.hasDragged = TRUE,
                         !.elems[id].left = moveLeft(snappedX, shapeSize),
                         !.elems[id].top = moveTop(snappedY)]
          ELSE s

\* A mistaken handleClick: the other shapes keep their selection.
handleClickKeepOthers(s, id) ==
  LET ctl == s.elems[id].ctl
  IN [s EXCEPT !.elems[id].selected = TRUE,
               !.timers.ctx =
                  Append(@, [shape |-> id, x |-> ctl.startX, y |-> ctl.startY])]

\* handleClick: every .dropped-shape of the document is deselected, this
\* element is selected and the context menu is requested 50 ms later, at
\* the position of the press.
handleClick(s, id) ==
  LET ctl == s.elems[id].ctl
      cleared == [i \in DOMAIN s.elems |->
                    IF i \in SeqToSet(s.placed)
                    THEN [s.elems[i] EXCEPT !.selected = FALSE]
                    ELSE s.elems[i]]
  IN [s EXCEPT !.elems = [cleared EXCEPT ![id].selected = TRUE],
               !.timers.ctx =
                  Append(@, [shape |-> id, x |-> ctl.startX, y |-> ctl.startY])]

handleMoveEnd(s, id) ==
  LET ctl == s.elems[id].ctl
      done == IF ~ctl.hasDragged /\ ctl.startEvent # "null"
              THEN handleClick(s, id)
              ELSE s
  IN IF ~ctl.isDragging THEN s
     ELSE [done EXCEPT !.elems[id].ctl = IdleController]

----------------------------------------------------------------------------
(* KeyboardManager and PrintManager *)

\* A mistaken clearAllShapes: only the selected shapes are removed.
clearSelectedShapes(s) ==
  SupplyListUpdate(
    [s EXCEPT !.placed =
       SelectSeqNot(@, {i \in SeqToSet(s.placed) : s.elems[i].selected})])

clearAllShapes(s) == SupplyListUpdate([s EXCEPT !.placed = <<>>])

\* document.querySelector('.dropped-shape.selected'): the first in
\* document order, NoShape for null.
firstSelected(s) ==
  LET hits == {i \in 1..Len(s.placed) : s.elems[s.placed[i]].selected}
  IN IF hits = {} THEN NoShape
     ELSE s.placed[CHOOSE i \in hits : \A j \in hits : i <= j]

\* A mistaken deleteSelectedShape: the last shape goes when none is selected.
deleteSelectedOrLast(s) ==
  LET selected == IF firstSelected(s) # NoShape \/ s.placed = <<>>
                  THEN firstSelected(s)
                  ELSE s.placed[Len(s.placed)]
  IN IF selected = NoShape THEN s
     ELSE SupplyListUpdate([s EXCEPT !.placed = SelectSeqNot(@, {selected})])

deleteSelectedShape(s) ==
  LET selected == firstSelected(s)
  IN IF selected = NoShape THEN s
     ELSE SupplyListUpdate([s EXCEPT !.placed = SelectSeqNot(@, {selected})])

\* handlePrint up to the print or the capture: hideContextMenu is emitted.
handlePrint(s) == hide(s)

----------------------------------------------------------------------------
(* Start-up and the handlers, on a document that may lack nodes *)

\* The nodes the script looks up by id, and the palette items (.shape-item
\* elements carrying data-shape).
Nodes ==
  {"build-area", "supply-list-content", "difficulty-hammers", "difficulty-desc",
   "collapse-btn", "collapsible-content", "print-btn", "card-name",
   "clear-all-btn", "palette-item"}

\* CardCreatorApp.init constructs the managers in this order.
Managers ==
  <<"supplyList", "dragDrop", "contextMenu", "difficulty", "mobileUI", "print",
    "cardNaming", "keyboard">>

\* The document before DOMContentLoaded.  shapes: the .dropped-shape
\* elements, counted; listed: the shapes the supply list shows; level:
\* DifficultyManager.currentLevel; hammers, description: the level the
\* hammer icons and the description show (0: what the page came with);
\* errors: the places where an exception was raised and left its handler.
NotStarted(nodes) ==
  [nodes |-> nodes, started |-> FALSE, managers |-> {}, listeners |-> {},
   errors |-> {}, shapes |-> 0, listed |-> 0, level |-> 1, hammers |-> 0,
   description |-> 0, collapsed |-> FALSE]

Raise(p, where) == [p EXCEPT !.errors = @ \cup {where}]

Raised(p, q) == q.errors # p.errors

\* SupplyListManager.update on the counted shapes: render writes to the
\* container the constructor looked up.
updateOn(p) ==
  IF "supply-list-content" \in p.nodes
  THEN [p EXCEPT !.listed = p.shapes]
  ELSE Raise(p, "SupplyListManager.render")

\* eventBus.emit of shapeAdded, shapeRemoved or shapesCleared: the listeners
\* setupEventListeners registered, if it ran.
emitOn(p, event) == IF event \in p.listeners THEN updateOn(p) ELSE p

updateDisplayOn(p) ==
  IF "difficulty-hammers" \in p.nodes
  THEN [p EXCEPT !.hammers = p.level]
  ELSE Raise(p, "DifficultyManager.updateDisplay")

\* MobileUIManager.handleResize: expandByDefault or collapseByDefault.
handleResizeOn(p, mobile) ==
  IF {"collapse-btn", "collapsible-content"} \subseteq p.nodes
  THEN [p EXCEPT !.collapsed = mobile]
  ELSE p

\* The constructor of one manager: the listeners it installs before it
\* returns or throws.
constructOn(p, manager, mobile) ==
  CASE manager = "supplyList" -> p
    [] manager = "dragDrop" ->
         LET items == [p EXCEPT !.listeners =
                         @ \cup (IF "palette-item" \in p.nodes
                                 THEN {"palette-item"} ELSE {})]
         IN IF "build-area" \in p.nodes
            THEN [items EXCEPT !.listeners = @ \cup {"build-area"}]
            ELSE Raise(items, "DragDropManager.setupBuildArea")
    [] manager = "contextMenu" ->
         [p EXCEPT !.listeners = @ \cup {"showContextMenu"}]
    [] manager = "difficulty" ->
         updateDisplayOn([p EXCEPT !.level = 1,
                                   !.listeners = @ \cup {"difficulty-btn"}])
    [] manager = "mobileUI" ->
         LET setup == IF {"collapse-btn", "collapsible-content"} \subseteq p.nodes
                      THEN [p EXCEPT !.listeners = @ \cup {"collapse-btn"}]
                      ELSE p
         IN [handleResizeOn(setup, mobile) EXCEPT !.listeners = @ \cup {"resize"}]
    [] manager = "print" ->
         IF "print-btn" \in p.nodes
         THEN [p EXCEPT !.listeners = @ \cup {"print-btn"}]
         ELSE p
    [] manager = "cardNaming" ->
         IF "card-name" \in p.nodes
         THEN [p EXCEPT !.listeners = @ \cup {"card-name"}]
         ELSE p
    [] manager = "keyboard" -> [p EXCEPT !.listeners = @ \cup {"keydown"}]

setupEventListenersOn(p) ==
  [p EXCEPT !.listeners =
     @ \cup {"shapeAdded", "shapeRemoved", "shapesCleared", "hideContextMenu"}
       \cup (IF "clear-all-btn" \in p.nodes THEN {"clear-all-btn"} ELSE {})]

RECURSIVE constructAll(_, _, _)
\* init: the managers one after the other, then setupEventListeners and
\* showInstructions; an exception ends it where it is raised.
constructAll(p, managers, mobile) ==
  IF managers = <<>> THEN setupEventListenersOn(p)
  ELSE LET made == constructOn(p, Head(managers), mobile)
       IN IF Raised(p, made) THEN made
          ELSE constructAll([made EXCEPT !.managers = @ \cup {Head(managers)}],
                            Tail(managers), mobile)

\* new CardCreatorApp() in the DOMContentLoaded listener.
CardCreatorAppOn(nodes, mobile) ==
  [constructAll(NotStarted(nodes), Managers, mobile) EXCEPT !.started = TRUE]

CardCreatorApp(nodes) == CardCreatorAppOn(nodes, FALSE)

\* createShape once ShapeFactory.create has returned an element.
createShapeOn(p) == emitOn([p EXCEPT !.shapes = @ + 1], "shapeAdded")

\* handleTapToAdd and handleTapToAddTouch; the palette item clicked is its
\* own definition.
handleTapToAddOn(p) ==
  IF "build-area" \notin p.nodes THEN p ELSE createShapeOn(p)

\* handleTouchEnd of a palette item after a drag; over: the finger is lifted
\* over the build area.
handleTouchEndOn(p, over) ==
  IF "build-area" \notin p.nodes
  THEN Raise(p, "DragDropManager.handleTouchEnd")
  ELSE IF over THEN createShapeOn(p) ELSE p

\* handleDrop; known: a palette item carries the dropped text as data-shape
\* (ShapeFactory.getDefinition returns null otherwise).
handleDropOn(p, known) == IF known THEN createShapeOn(p) ELSE p

clearAllShapesOn(p) ==
  IF "build-area" \notin p.nodes
  THEN Raise(p, "KeyboardManager.clearAllShapes")
  ELSE emitOn([p EXCEPT !.shapes = 0], "shapesCleared")

\* The click listener of a .difficulty-btn.
difficultyClickOn(p, level) ==
  LET chosen == [p EXCEPT !.level = level]
  IN IF "difficulty-desc" \notin p.nodes
     THEN Raise(chosen, "DifficultyManager.setupButtons")
     ELSE updateDisplayOn([chosen EXCEPT !.description = level])

\* MobileUIManager.toggle
toggleOn(p) ==
  IF {"collapse-btn", "collapsible-content"} \subseteq p.nodes
  THEN [p EXCEPT !.collapsed = ~@]
  ELSE Raise(p, "MobileUIManager.toggle")

----------------------------------------------------------------------------
(* PrintManager: the capture of the card as an image *)

\* No capture in progress.  library: html2canvas is defined; scriptTag: the
\* document holds the script element loadScript appended; share:
\* navigator.share and navigator.canShare exist; blob: what toBlob handed
\* over.  Since the last click on the print button: failed, the steps that
\* failed; alerts, the fallback messages shown; unhandled, the promises
\* rejected with no handler; made, the image blobs toBlob handed over;
\* shared and downloads, the files navigator.share took and the downloads
\* started; urls, the object URLs created and not revoked.
\* prints counts the clicks; early, the promises of loadScript that resolved
\* while the script had not finished loading.
NoCapture ==
  [phase |-> "idle", library |-> FALSE, scriptTag |-> FALSE, share |-> FALSE,
   blob |-> "none", failed |-> {}, alerts |-> 0, unhandled |-> 0,
   made |-> 0, shared |-> 0, downloads |-> 0, urls |-> 0, prints |-> 0,
   early |-> 0]

Failed(c, step) == [c EXCEPT !.failed = @ \cup {step}]

Over(c) == [c EXCEPT !.phase = "idle", !.blob = "none"]

showFallbackInstructions(c) == [c EXCEPT !.alerts = @ + 1]

\* The catch block of captureAsImage.
captureCatch(c, step) == Over(showFallbackInstructions(Failed(c, step)))

\* html2canvas(card, ...): a ReferenceError while the library is not defined.
html2canvasCall(c) ==
  IF c.library THEN [c EXCEPT !.phase = "rendering"] ELSE captureCatch(c, "load")

\* captureAsImage up to its first await that waits.  loadScript resolves
\* at once when the document already holds the script element.
captureAsImage(c) ==
  IF c.library THEN html2canvasCall(c)
  ELSE IF c.scriptTag THEN html2canvasCall([c EXCEPT !.early = @ + 1])
  ELSE [c EXCEPT !.scriptTag = TRUE, !.phase = "loading"]

\* The script element's onload (ok) or onerror.
loadScriptSettles(c, ok) ==
  IF ok THEN html2canvasCall([c EXCEPT !.library = TRUE])
  ELSE captureCatch(c, "load")

\* html2canvas's promise settles; toBlob: canvas.toBlob takes the callback
\* ("queued") or throws.
html2canvasSettles(c, ok, toBlob) ==
  IF ~ok THEN captureCatch(c, "render")
  ELSE IF toBlob = "throws" THEN captureCatch(c, "encode")
       ELSE [c EXCEPT !.phase = "encoding"]

\* saveImage's download: URL.createObjectURL throws a TypeError for a null
\* blob, which rejects the promise of saveImage; no one awaits it.
download(c, blob) ==
  IF blob = "null" THEN Over([c EXCEPT !.unhandled = @ + 1])
  ELSE LET created == [c EXCEPT !.urls = @ + 1]
           clicked == [created EXCEPT !.downloads = @ + 1]
       IN Over([clicked EXCEPT !.urls = @ - 1])

\* saveImage up to its await; can: navigator.canShare answers "yes" or
\* "no", or the try block throws.
saveImage(c, blob, can) ==
  IF c.share /\ can = "yes" THEN [c EXCEPT !.phase = "sharing", !.blob = blob]
  ELSE download(c, blob)

\* The callback of canvas.toBlob: a blob, or null when the encoding failed.
toBlobCallback(c, blob, can) ==
  saveImage(IF blob = "null" THEN Failed(c, "encode")
            ELSE [c EXCEPT !.made = @ + 1],
            blob, can)

\* A mistaken saveImage: a rejected share ends it, with no download.
shareSettlesNoDownload(c, ok) ==
  IF ok THEN Over([c EXCEPT !.shared = @ + 1])
  ELSE Over(Failed(c, "save"))

\* navigator.share's promise settles: return, or fall through to download.
shareSettles(c, ok) ==
  IF ok THEN Over([c EXCEPT !.shared = @ + 1])
  ELSE download(Failed(c, "save"), c.blob)

\* handlePrint after hideContextMenu: the capture on a narrow window,
\* window.print() otherwise.
handlePrintOn(c, mobile) ==
  LET clicked == [c EXCEPT !.prints = @ + 1, !.failed = {}, !.alerts = 0,
                           !.unhandled = 0, !.made = 0, !.shared = 0,
                           !.downloads = 0]
  IN IF mobile THEN captureAsImage(clicked) ELSE clicked

\* handlePrint on a narrow window while the script of an earlier capture is
\* loading: this capture ends in its catch block, the earlier one goes on
\* waiting.
handlePrintWhileLoading(c) ==
  [captureAsImage([c EXCEPT !.prints = @ + 1]) EXCEPT !.phase = c.phase]

----------------------------------------------------------------------------
(* The page and the inputs of the events *)

\* getBoundingClientRect() of #build-area; clientWidth is its width.
Areas == {[left |-> 100, top |-> 20, width |-> 130, height |-> 180]}

\* The environment draws the events' inputs from one of three families; a run
\* keeps the family it starts with.
\*   types: the palette items used; drops: pointer positions of a drop;
\*   offsets: the pairs (Math.random() - 0.5) * 40 of tap-to-add;
\*   touchStart, touchPoints: where a finger lands on a palette item and
\*   where it moves; press: where a shape is pressed, from its corner;
\*   deltas: how far the pointer moves from the press;
\*   menuActions: the menu items clicked; maxShapes: shapes in the build
\*   area at one time; means: what the user does, of
\*     "dnd" (mouse drag and drop from the palette), "click" (click on a
\*     palette item), "touch" (finger on a palette item), "mouse" and
\*     "finger" (press on a shape), "tap" (a press released without a move),
\*     "rightclick", "keys" (Escape, Delete), "buttons" (clear all, print),
\*     "outside" (click on the page).

\* The life cycle: three shape types, two of them with the same display
\* name, each placed at one position.
LifeInputs ==
  [types |-> {"square", "barrel-cylinder", "barrel-circle"},
   drops |-> {<<160, 80>>},
   offsets |-> {<<0, 0>>},
   touchStart |-> <<40, 60>>,
   touchPoints |-> {<<160, 80>>},
   press |-> <<10, 10>>,
   deltas |-> {<<6, 0>>},
   menuActions |-> {"delete"},
   means |-> {"click", "mouse", "tap", "keys", "buttons", "outside"},
   maxShapes |-> MaxShapes]

\* The positions: pointer positions at the corners of the build area and
\* inside it, displacements below and above the drag threshold, a shape
\* type wider than the build area.
PositionInputs ==
  [types |-> {"square", "2x4"},
   drops |-> {<<100, 20>>, <<230, 200>>},
   offsets |-> {<<-20, -20>>, <<0, 0>>, <<19, 19>>},
   touchStart |-> <<40, 60>>,
   touchPoints |-> {<<40, 60>>, <<44, 63>>, <<50, 60>>, <<170, 80>>, <<230, 200>>},
   press |-> <<10, 10>>,
   deltas |-> {<<3, -4>>, <<6, 0>>, <<-30, 10>>, <<200, 30>>, <<0, -50>>},
   menuActions |-> {"delete"},
   means |-> {"dnd", "click", "touch", "mouse", "finger", "keys"},
   maxShapes |-> MaxShapes - 1]

\* Rotation and flip: every menu item and the right click, on one shape
\* type at one position.
TransformInputs ==
  [types |-> {"cone"},
   drops |-> {<<160, 80>>},
   offsets |-> {<<0, 0>>},
   touchStart |-> <<40, 60>>,
   touchPoints |-> {<<160, 120>>},
   press |-> <<10, 10>>,
   deltas |-> {<<3, -4>>, <<6, 0>>},
   menuActions |-> MenuActions,
   means |-> {"click", "touch", "mouse", "finger", "tap", "rightclick", "keys",
              "buttons", "outside"},
   maxShapes |-> MaxShapes - 1]

InputFamilies == {LifeInputs, PositionInputs, TransformInputs}

\* Drops of text from outside the page, next to drags from the palette.
TextInputs ==
  [types |-> {"square", "cone"},
   drops |-> {<<160, 80>>, <<120, 40>>},
   offsets |-> {<<0, 0>>},
   touchStart |-> <<40, 60>>,
   touchPoints |-> {<<160, 80>>},
   press |-> <<10, 10>>,
   deltas |-> {<<6, 0>>},
   menuActions |-> {"delete"},
   means |-> {"dnd", "click", "keys"},
   maxShapes |-> MaxShapes]

\* What dataTransfer.getData('text/plain') can hand to handleDrop.
DropTexts == PaletteTypes \cup PlainTexts \cup UnparsableTexts \cup ListTexts

NoOp == [op |-> "none", id |-> NoShape, item |-> NoItem]

Op(op, id, item) == [op |-> op, id |-> id, item |-> item]

InitShapes(in) ==
  /\ buildArea \in Areas
  /\ inputs = in
  /\ elems = <<>>
  /\ placed = <<>>
  /\ supply = <<>>
  /\ ddm = [draggedElement |-> NoItem, touchDraggedElement |-> NoItem,
            touchStartPos |-> NoPos, isDragging |-> FALSE]
  /\ opacity = [t \in in.types |-> "1"]
  /\ menu = [created |-> FALSE, show |-> FALSE, currentShape |-> NoShape,
             listening |-> FALSE]
  /\ timers = [ctx |-> <<>>, raf |-> 0, outside |-> 0]
  /\ browser = [dnd |-> "idle", dataTransfer |-> "", touch |-> "none",
                pos |-> NoPos, prevented |-> FALSE, reach |-> 0,
                grab |-> NoShape, uncaught |-> {}]
  /\ lastOp = NoOp

\* The page is complete, start-up is over and nothing is being captured.
InitProgram(in) ==
  /\ InitShapes(in)
  /\ page = CardCreatorApp(Nodes)
  /\ capture = NoCapture

Init ==
  /\ \E in \in InputFamilies : InitProgram(in)
  /\ snapIn = 0
  /\ snapOut = <<>>

\* No pointer gesture is in progress.
Idle ==
  /\ browser.dnd = "idle"
  /\ browser.touch = "none"
  /\ browser.grab = NoShape

\* An element that has left the document.  Nothing reads its position,
\* rotation, transform or selection again (the script's queries are on the
\* document, and the element is never attached again): the model keeps its
\* identity, its type and its controller.
Detached(el) ==
  [el EXCEPT !.left = 0, !.top = 0, !.rotation = NoRotation,
             !.transform = NoTransform, !.selected = FALSE]

\* The handler's result becomes the next state; an element nothing refers
\* to any more is dropped.
CommitState(s, op) ==
  /\ elems' = [i \in Referenced(s) \cap DOMAIN s.elems |->
                 IF i \in SeqToSet(s.placed) THEN s.elems[i]
                 ELSE Detached(s.elems[i])]
  /\ placed' = s.placed
  /\ supply' = s.supply
  /\ ddm' = s.ddm
  /\ opacity' = s.opacity
  /\ menu' = s.menu
  /\ timers' = s.timers
  /\ browser' = s.browser
  /\ lastOp' = op

Commit(s, op) ==
  /\ CommitState(s, op)
  /\ UNCHANGED <<buildArea, inputs, snapIn, snapOut, page, capture>>

----------------------------------------------------------------------------
(* Events on the palette and the build area *)

\* dragstart on a palette item.
DragStart ==
  \E item \in inputs.types :
    /\ "dnd" \in inputs.means
    /\ Idle
    /\ Commit(handleDragStart([State EXCEPT !.browser.dnd = "drag"], item),
              Op("dragstart", NoShape, item))

\* drop on the build area.
Drop ==
  \E pos \in inputs.drops :
    /\ browser.dnd = "drag"
    /\ Len(placed) < inputs.maxShapes
    /\ Commit(handleDrop([State EXCEPT !.browser.dnd = "dropped",
                                       !.browser.pos = pos],
                         pos[1], pos[2]),
              Op("drop", generateId(State), browser.dataTransfer))

\* dragend on the palette item.
DragEnd ==
  /\ browser.dnd \in {"drag", "dropped"}
  /\ Commit(handleDragEnd([State EXCEPT !.browser.dnd = "idle",
                                         !.browser.dataTransfer = "",
                                         !.browser.pos = NoPos],
                          ddm.draggedElement),
            Op("dragend", NoShape, ddm.draggedElement))

\* click on a palette item (the handler stops the event's propagation).
PaletteClick ==
  \E item \in inputs.types, offset \in inputs.offsets :
    /\ "click" \in inputs.means
    /\ Idle
    /\ Len(placed) < inputs.maxShapes
    /\ Commit(handleTapToAdd(State, item, offset),
              Op("click", generateId(State), item))

\* touchstart on a palette item; the event then reaches the document.
TouchStart ==
  \E item \in inputs.types :
    /\ "touch" \in inputs.means
    /\ Idle
    /\ Len(placed) < inputs.maxShapes
    /\ LET began == [State EXCEPT !.browser.touch = "palette",
                                  !.browser.pos = inputs.touchStart,
                                  !.browser.prevented = FALSE,
                                  !.browser.reach = 0]
       IN Commit(documentEvent(handleTouchStart(began, item, inputs.touchStart),
                               FALSE),
                 Op("touchstart", NoShape, item))

\* touchmove on the palette item.
TouchMove ==
  \E pos \in inputs.touchPoints :
    /\ browser.touch = "palette"
    /\ pos # browser.pos
    /\ LET far == Max(Abs(pos[1] - inputs.touchStart[1]),
                      Abs(pos[2] - inputs.touchStart[2]))
           moved == [State EXCEPT !.browser.pos = pos,
                                  !.browser.reach = Max(@, far)]
       IN Commit(handleTouchMove(moved, pos),
                 Op("touchmove", NoShape, ddm.touchDraggedElement))

\* touchend on the palette item.  A touchstart whose default was not
\* prevented is followed by the click the browser makes of a tap.
TouchEnd ==
  \E offset \in inputs.offsets :
    /\ browser.touch = "palette"
    /\ LET item == ddm.touchDraggedElement
           ended == handleTouchEnd(State, browser.pos, offset)
           clicked == IF browser.prevented \/ ddm.isDragging
                      THEN ended
                      ELSE handleTapToAdd(ended, item, offset)
       IN Commit([clicked EXCEPT !.browser.touch = "none",
                                 !.browser.pos = NoPos,
                                 !.browser.prevented = FALSE,
                                 !.browser.reach = 0],
                 Op("touchend", generateId(State), item))

----------------------------------------------------------------------------
(* Events on a placed shape *)

\* The pointer position of a press on shape id.
PressX(id) == buildArea.left + elems[id].left + inputs.press[1]

PressY(id) == buildArea.top + elems[id].top + inputs.press[2]

\* The browser's side of a press on shape id: the pointer holds the shape.
Pressed(id) ==
  [State EXCEPT !.browser.grab = id,
                !.browser.pos = <<PressX(id), PressY(id)>>,
                !.browser.reach = 0]

\* mousedown on a shape.
MouseDown ==
  \E id \in SeqToSet(placed) :
    /\ "mouse" \in inputs.means
    /\ Idle
    /\ Len(timers.ctx) < MaxPending
    /\ Commit(handleMoveStart(Pressed(id), id,
                              "mousedown", PressX(id), PressY(id)),
              Op("mousedown", id, NoItem))

\* touchstart on a shape; the event then reaches the document.
ShapeTouchStart ==
  \E id \in SeqToSet(placed) :
    /\ "finger" \in inputs.means
    /\ Idle
    /\ Len(timers.ctx) < MaxPending
    /\ Commit(documentEvent(
                handleMoveStart(Pressed(id), id,
                                "touchstart", PressX(id), PressY(id)),
                TRUE),
              Op("shapetouchstart", id, NoItem))

\* mousemove or touchmove on the document while a shape is held.
PointerMove ==
  \E delta \in inputs.deltas :
    /\ browser.grab # NoShape
    /\ LET id == browser.grab
           ctl == elems[id].ctl
           far == Max(Abs(delta[1]), Abs(delta[2]))
           pos == <<ctl.startX + delta[1], ctl.startY + delta[2]>>
           moved == handleMove([State EXCEPT !.browser.pos = pos,
                                             !.browser.reach = Max(@, far)],
                               id, pos[1], pos[2])
       IN /\ moved.elems[id].top <= MaxTop
          /\ Commit(moved, Op("move", id, NoItem))

\* mouseup or touchend on the document while a shape is held.  The click
\* that follows a mouseup is on the shape: the outside-click listener
\* leaves the menu alone.
PointerUp ==
  /\ browser.grab # NoShape
  /\ "tap" \in inputs.means \/ elems[browser.grab].ctl.hasDragged
  /\ LET id == browser.grab
         ctl == elems[id].ctl
     IN Commit(handleMoveEnd([State EXCEPT !.browser.grab = NoShape,
                                           !.browser.pos = NoPos,
                                           !.browser.reach = 0], id),
               Op(IF ctl.hasDragged THEN "dragged" ELSE "select", id, NoItem))

\* contextmenu (right click) on a shape: setupRotation's listener.
ContextMenuEvent ==
  \E id \in SeqToSet(placed) :
    /\ "rightclick" \in inputs.means
    /\ Idle
    /\ Commit(rotate(State, id), Op("contextmenu", id, NoItem))

----------------------------------------------------------------------------
(* Keyboard and buttons *)

KeyEscape ==
  /\ "keys" \in inputs.means
  /\ Commit(clearAllShapes(State), Op("escape", NoShape, NoItem))

\* Delete or Backspace.
KeyDelete ==
  /\ "keys" \in inputs.means
  /\ Commit(deleteSelectedShape(State),
            Op("deletekey", firstSelected(State), NoItem))

\* click on #clear-all-btn; the event then reaches the document.
ClearAllClick ==
  /\ "buttons" \in inputs.means
  /\ Idle
  /\ Commit(documentEvent(clearAllShapes(State), FALSE),
            Op("clearall", NoShape, NoItem))

\* click on #print-btn; the event then reaches the document.
PrintClick ==
  /\ "buttons" \in inputs.means
  /\ Idle
  /\ menu.created
  /\ Commit(documentEvent(handlePrint(State), FALSE),
            Op("print", NoShape, NoItem))

\* click on the page outside the menu, the shapes and the controls.
OutsideClick ==
  /\ "outside" \in inputs.means
  /\ Idle
  /\ menu.listening
  /\ Commit(documentEvent(State, FALSE), Op("outsideclick", NoShape, NoItem))

----------------------------------------------------------------------------
(* The context menu *)

\* handleClick's timer: showContextMenu is emitted.
ShowContextMenu ==
  /\ timers.ctx # <<>>
  /\ timers.raf < MaxPending
  /\ timers.outside < MaxPending
  /\ LET request == Head(timers.ctx)
     IN Commit(show([State EXCEPT !.timers.ctx = Tail(@)], request.shape),
               Op("showmenu", request.shape, NoItem))

ShowFrame ==
  /\ timers.raf > 0
  /\ Commit(showFrame(State), Op("showframe", menu.currentShape, NoItem))

ShowListen ==
  /\ timers.outside > 0
  /\ Commit(showListen(State), Op("showlisten", menu.currentShape, NoItem))

\* click on an item of the visible menu (the handler stops propagation).
MenuClick ==
  \E action \in inputs.menuActions :
    /\ Idle
    /\ menu.created
    /\ menu.show
    /\ Commit(handleAction(State, action), Op(action, menu.currentShape, NoItem))

----------------------------------------------------------------------------
(* Start-up and the handlers on a document that lacks nodes *)

\* The documents: all the nodes but at most MaxMissing of them.
Documents == {nodes \in SUBSET Nodes : Cardinality(Nodes \ nodes) <= MaxMissing}

InitPage ==
  /\ InitShapes(LifeInputs)
  /\ page \in {NotStarted(nodes) : nodes \in Documents}
  /\ capture = NoCapture
  /\ snapIn = 0
  /\ snapOut = <<>>

PageStep(p) ==
  /\ page' = p
  /\ UNCHANGED <<buildArea, inputs, elems, placed, supply, ddm, opacity, menu,
                 timers, browser, lastOp, snapIn, snapOut, capture>>

\* DOMContentLoaded; mobile: the window is no wider than MOBILE_BREAKPOINT.
PageStart ==
  \E mobile \in BOOLEAN :
    /\ ~page.started
    /\ PageStep(CardCreatorAppOn(page.nodes, mobile))

\* click, or touch tap, on a palette item.
PageTap ==
  /\ "palette-item" \in page.listeners
  /\ page.shapes < MaxPageShapes
  /\ PageStep(handleTapToAddOn(page))

\* touchend on a palette item after a drag.
PageTouchDrop ==
  \E over \in BOOLEAN :
    /\ "palette-item" \in page.listeners
    /\ page.shapes < MaxPageShapes
    /\ PageStep(handleTouchEndOn(page, over))

\* drop on the build area, of a palette item or of some other text.
PageDrop ==
  \E known \in {k \in BOOLEAN : k => "palette-item" \in page.nodes} :
    /\ "build-area" \in page.listeners
    /\ page.shapes < MaxPageShapes
    /\ PageStep(handleDropOn(page, known))

\* Escape.
PageEscape ==
  /\ "keydown" \in page.listeners
  /\ PageStep(clearAllShapesOn(page))

\* click on #clear-all-btn.
PageClearAll ==
  /\ "clear-all-btn" \in page.listeners
  /\ PageStep(clearAllShapesOn(page))

\* click on a .difficulty-btn.
PageDifficulty ==
  \E level \in 1..3 :
    /\ "difficulty-btn" \in page.listeners
    /\ PageStep(difficultyClickOn(page, level))

\* click on #collapse-btn.
PageCollapse ==
  /\ "collapse-btn" \in page.listeners
  /\ PageStep(toggleOn(page))

\* resize of the window.
PageResize ==
  \E mobile \in BOOLEAN :
    /\ "resize" \in page.listeners
    /\ PageStep(handleResizeOn(page, mobile))

NextPage ==
  \/ PageStart
  \/ PageTap
  \/ PageTouchDrop
  \/ PageDrop
  \/ PageEscape
  \/ PageClearAll
  \/ PageDifficulty
  \/ PageCollapse
  \/ PageResize

----------------------------------------------------------------------------
(* The capture of the card *)

InitCaptures ==
  /\ InitShapes(LifeInputs)
  /\ page = CardCreatorApp(Nodes)
  /\ capture \in {[NoCapture EXCEPT !.library = l, !.share = s] :
                    l \in BOOLEAN, s \in BOOLEAN}
  /\ snapIn = 0
  /\ snapOut = <<>>

CaptureStep(c) ==
  /\ capture' = c
  /\ UNCHANGED <<buildArea, inputs, elems, placed, supply, ddm, opacity, menu,
                 timers, browser, lastOp, snapIn, snapOut, page>>

\* click on #print-btn, one capture at a time; the event then reaches the
\* document.
CapturePrintClick ==
  \E mobile \in BOOLEAN :
    /\ "print-btn" \in page.listeners
    /\ capture.phase = "idle"
    /\ capture.prints < MaxPrints
    /\ CommitState(documentEvent(handlePrint(State), FALSE),
                   Op("print", NoShape, NoItem))
    /\ capture' = handlePrintOn(capture, mobile)
    /\ UNCHANGED <<buildArea, inputs, snapIn, snapOut, page>>

LoadScriptSettles ==
  \E ok \in BOOLEAN :
    /\ capture.phase = "loading"
    /\ CaptureStep(loadScriptSettles(capture, ok))

Html2canvasSettles ==
  \E ok \in BOOLEAN, toBlob \in {"queued", "throws"} :
    /\ capture.phase = "rendering"
    /\ CaptureStep(html2canvasSettles(capture, ok, toBlob))

ToBlobCallback ==
  \E blob \in {"blob", "null"}, can \in {"yes", "no", "throws"} :
    /\ capture.phase = "encoding"
    /\ CaptureStep(toBlobCallback(capture, blob, can))

ShareSettles ==
  \E ok \in BOOLEAN :
    /\ capture.phase = "sharing"
    /\ CaptureStep(shareSettles(capture, ok))

NextCapture ==
  \/ CapturePrintClick
  \/ LoadScriptSettles
  \/ Html2canvasSettles
  \/ ToBlobCallback
  \/ ShareSettles

\* click on #print-btn on a narrow window while the script is loading.
CapturePrintClickAgain ==
  /\ "print-btn" \in page.listeners
  /\ capture.phase = "loading"
  /\ capture.prints < MaxPrints
  /\ CommitState(documentEvent(handlePrint(State), FALSE),
                 Op("print", NoShape, NoItem))
  /\ capture' = handlePrintWhileLoading(capture)
  /\ UNCHANGED <<buildArea, inputs, snapIn, snapOut, page>>

NextLoad ==
  \/ CapturePrintClick
  \/ CapturePrintClickAgain
  \/ LoadScriptSettles
  \/ Html2canvasSettles
  \/ ToBlobCallback
  \/ ShareSettles

----------------------------------------------------------------------------------------------------------------------------------------
(* Text dropped on the build area *)

InitText ==
  /\ InitProgram(TextInputs)
  /\ snapIn = 0
  /\ snapOut = <<>>

\* drop on the build area of a drag that began outside the palette: the
\* text it carries is any text.
DropText ==
  \E text \in DropTexts, pos \in inputs.drops :
    /\ Idle
    /\ Len(placed) < inputs.maxShapes
    /\ LET dropped == handleDrop([State EXCEPT !.browser.dataTransfer = text,
                                               !.browser.pos = pos],
                                 pos[1], pos[2])
       IN Commit([dropped EXCEPT !.browser.dataTransfer = "",
                                 !.browser.pos = NoPos],
                 Op("droptext", generateId(State), text))

NextText ==
  \/ DragStart
  \/ Drop
  \/ DragEnd
  \/ DropText
  \/ PaletteClick
  \/ KeyEscape

----------------
(* Utils.snapToGrid on its own *)

InitSnap ==
  /\ InitProgram(LifeInputs)
  /\ snapIn \in (-MaxCoord)..MaxCoord
  /\ snapOut = <<>>

\* snapToGrid(v), and snapToGrid of its result.
ApplySnap ==
  /\ snapOut = <<>>
  /\ snapOut' = <<snapToGrid(snapIn), snapToGrid(snapToGrid(snapIn))>>
  /\ UNCHANGED <<buildArea, inputs, elems, placed, supply, ddm, opacity, menu,
                 timers, browser, lastOp, snapIn, page, capture>>

----------------------------------------------------------------------------
(* Specifications *)

Next ==
  \/ DragStart
  \/ Drop
  \/ DragEnd
  \/ PaletteClick
  \/ TouchStart
  \/ TouchMove
  \/ TouchEnd
  \/ MouseDown
  \/ ShapeTouchStart
  \/ PointerMove
  \/ PointerUp
  \/ ContextMenuEvent
  \/ KeyEscape
  \/ KeyDelete
  \/ ClearAllClick
  \/ PrintClick
  \/ OutsideClick
  \/ ShowContextMenu
  \/ ShowFrame
  \/ ShowListen
  \/ MenuClick

Spec == Init /\ [][Next]_vars

SpecSnap == InitSnap /\ [][ApplySnap]_vars

SpecPage == InitPage /\ [][NextPage]_vars

SpecCapture == InitCaptures /\ [][NextCapture]_vars

SpecText == InitText /\ [][NextText]_vars

SpecLoad == InitCaptures /\ [][NextLoad]_vars

----------------------------------------------------------------------------
(* Properties *)

PlacedSet == SeqToSet(placed)

PlaceOps == {"drop", "click", "touchend"}

DeleteOps == {"delete", "deletekey"}

ClearOps == {"escape", "clearall"}

\* C1: every placed shape's left and top are multiples of the grid step.
C1_OnGrid ==
  \A i \in PlacedSet :
    elems[i].left % 20 = 0 /\ elems[i].top % 20 = 0

\* C2: every placed shape lies horizontally inside a build area that is at
\* least as wide as the shape.
C2_InsideHorizontally ==
  \A i \in PlacedSet :
    LET w == SHAPE_SIZES[elems[i].shapeType].width
    IN buildArea.width >= w =>
         elems[i].left >= 0 /\ elems[i].left + w <= buildArea.width

\* C3 as stated: every placed shape lies vertically inside the build area.
C3_InsideVertically ==
  \A i \in PlacedSet :
    /\ elems[i].top >= 0
    /\ elems[i].top + SHAPE_SIZES[elems[i].shapeType].height <= buildArea.height

\* C3 as amended: no placed shape starts above the build area (the lower
\* edge is not bounded).
C3_NotAboveBuildArea == \A i \in PlacedSet : elems[i].top >= 0

\* A shape has been dragged and its top is at the upper edge of the build
\* area.
C3_Witness ==
  /\ lastOp.op = "move"
  /\ lastOp.id \in PlacedSet
  /\ elems[lastOp.id].ctl.hasDragged
  /\ elems[lastOp.id].top = 0

DisplayNames == {SHAPE_NAMES[t] : t \in ShapeTypes} \cup {"Unknown"}

Shown(name) == IF name \in DOMAIN supply THEN supply[name] ELSE 0

RECURSIVE SumShown(_)
SumShown(names) ==
  IF names = {} THEN 0
  ELSE LET n == CHOOSE n \in names : TRUE
       IN supply[n] + SumShown(names \ {n})

\* C4: the supply list shows, for each display name, the number of placed
\* shapes whose type has that name, no entry for a name without shapes, and
\* counts that sum to the number of placed shapes.
C4_SupplyListCounts ==
  /\ \A name \in DisplayNames :
       Shown(name) =
         Cardinality({i \in 1..Len(placed) :
                        SHAPE_NAMES[elems[placed[i]].shapeType] = name})
  /\ \A name \in DOMAIN supply : name \in DisplayNames /\ supply[name] > 0
  /\ SumShown(DOMAIN supply) = Len(placed)

\* A barrel-cylinder and a barrel-circle are counted as two barrels, after
\* an add.
C4_Witness ==
  /\ lastOp.op \in PlaceOps
  /\ {elems[i].shapeType : i \in PlacedSet} = {"barrel-cylinder", "barrel-circle"}
  /\ Shown("Barrel") = 2

\* C5: the placed shapes change only by a place action, which appends one
\* shape, by a delete, which removes one, or by a clear, which removes all;
\* a drop or a click on the palette does add a shape and a delete of a
\* placed shape does remove it; no step changes the type of a shape that
\* stays.
C5_Step ==
  /\ lastOp'.op \in {"drop", "click"} => Len(placed') = Len(placed) + 1
  /\ lastOp'.op \in DeleteOps /\ lastOp'.id \in PlacedSet =>
       placed' = SelectSeqNot(placed, {lastOp'.id})
  /\ \A i \in PlacedSet \cap SeqToSet(placed') :
       elems'[i].shapeType = elems[i].shapeType
  /\ placed' # placed =>
       \/ /\ lastOp'.op \in PlaceOps
          /\ \E id \in SeqToSet(placed') \ PlacedSet : placed' = Append(placed, id)
       \/ /\ lastOp'.op \in DeleteOps
          /\ \E id \in PlacedSet : placed' = SelectSeqNot(placed, {id})
          /\ Len(placed') = Len(placed) - 1
       \/ /\ lastOp'.op \in ClearOps
          /\ placed' = <<>>

C5_LifeCycleOnly == [][C5_Step]_vars

\* A flipped shape is still placed, right after the flip.
C5_Witness ==
  /\ lastOp.op = "flip-vertical"
  /\ lastOp.id \in PlacedSet
  /\ elems[lastOp.id].transform.sy = -1

\* C6: snapToGrid(v) is a multiple of 20 at most 10 away from v, and
\* snapping it again changes nothing.
C6_SnapNearestIdempotent ==
  snapOut # <<>> =>
    /\ snapOut[1] % 20 = 0
    /\ snapOut[1] - snapIn <= 10
    /\ snapIn - snapOut[1] <= 10
    /\ snapOut[2] = snapOut[1]

\* A negative input half way between two multiples of 20 has been snapped.
C6_Witness == snapOut # <<>> /\ snapIn = -30 /\ snapOut[1] = -20

\* The centred position of tap-to-add for a palette item, per axis.
CentreX(item) == buildArea.width \div 2 - SHAPE_SIZES[item].width \div 2

CentreY(item) == buildArea.height \div 2 - SHAPE_SIZES[item].height \div 2

\* The step is a tap on a palette item: a click, or a touch that never
\* moved more than 5 px from where it started.
TapStep ==
  \/ lastOp'.op = "click"
  \/ lastOp'.op = "touchend" /\ browser.reach <= 5

\* The step appends one shape of the palette item's type, at the centred
\* position up to an offset of at most 20 px per axis and grid snapping.
AddsOneCentred ==
  \E id \in SeqToSet(placed') \ PlacedSet :
    /\ placed' = Append(placed, id)
    /\ elems'[id].shapeType = lastOp'.item
    /\ \E ox \in -20..20 : elems'[id].left = snapToGrid(CentreX(lastOp'.item) + ox)
    /\ \E oy \in -20..20 : elems'[id].top = snapToGrid(CentreY(lastOp'.item) + oy)

Fits(item) ==
  /\ buildArea.width >= SHAPE_SIZES[item].width
  /\ buildArea.height >= SHAPE_SIZES[item].height

InsideRect(pos) ==
  /\ buildArea.left <= pos[1]
  /\ pos[1] <= buildArea.left + buildArea.width
  /\ buildArea.top <= pos[2]
  /\ pos[2] <= buildArea.top + buildArea.height

\* C8: a touch that moved more than 5 px from its start is a drag, whose
\* touchend creates one shape if the finger is lifted inside the build area
\* and none otherwise; a touch that never did is a tap, whose touchend adds
\* one shape; every touchend resets the gesture state.
C8_Step ==
  lastOp'.op = "touchend" =>
    LET item == lastOp'.item
        drag == browser.reach > 5
        addsOne == \E id \in SeqToSet(placed') \ PlacedSet :
                     /\ placed' = Append(placed, id)
                     /\ elems'[id].shapeType = item
    IN /\ drag /\ InsideRect(browser.pos) => addsOne
       /\ drag /\ ~InsideRect(browser.pos) => placed' = placed
       /\ ~drag => addsOne
       /\ ddm'.touchDraggedElement = NoItem
       /\ ddm'.touchStartPos = NoPos
       /\ ~ddm'.isDragging
       /\ opacity'[item] = "1"

C8_TouchGesture == [][C8_Step]_vars

\* A drag has ended outside the build area and nothing was created.
C8_Witness ==
  /\ lastOp.op = "touchend"
  /\ placed = <<>>
  /\ ddm.touchDraggedElement = NoItem
  /\ opacity[lastOp.item] = "1"

\* C9: right after Escape or a click on the clear-all button the build
\* area holds no shape and the supply list no entry.
C9_ClearRemovesAll ==
  lastOp.op \in ClearOps => placed = <<>> /\ DOMAIN supply = {}

\* Escape has removed a shape the context menu was open for.
C9_Witness ==
  /\ lastOp.op = "escape"
  /\ menu.currentShape # NoShape
  /\ menu.currentShape \notin PlacedSet

SelectedSet == {i \in PlacedSet : elems[i].selected}

\* C10: a click on a shape makes it the one selected shape; that lasts
\* until another shape is clicked; Delete or Backspace removes the selected
\* shape and leaves the others as they were, and removes nothing when no
\* shape is selected.
C10_Step ==
  /\ lastOp'.op = "select" /\ lastOp'.id \in PlacedSet =>
       {i \in SeqToSet(placed') : elems'[i].selected} = {lastOp'.id}
  /\ \A i \in PlacedSet \cap SeqToSet(placed') :
       elems'[i].selected # elems[i].selected => lastOp'.op = "select"
  /\ lastOp'.op = "deletekey" =>
       /\ \A i \in SeqToSet(placed') : i \in PlacedSet /\ elems'[i] = elems[i]
       /\ IF SelectedSet = {}
          THEN placed' = placed
          ELSE \E id \in SelectedSet :
                 /\ SelectedSet = {id}
                 /\ placed' = SelectSeqNot(placed, {id})

C10_DeleteSelected == [][C10_Step]_vars

\* Delete has removed the selected shape and another shape is still there.
C10_Witness ==
  /\ lastOp.op = "deletekey"
  /\ lastOp.id # NoShape
  /\ lastOp.id \notin PlacedSet
  /\ placed # <<>>

\* C11: a right click on a placed shape does not by itself rotate, flip,
\* move or delete the shape.
C11_Step ==
  lastOp'.op = "contextmenu" =>
    LET id == lastOp'.id
    IN /\ id \in SeqToSet(placed')
       /\ elems'[id].rotation = elems[id].rotation
       /\ elems'[id].transform = elems[id].transform
       /\ elems'[id].left = elems[id].left
       /\ elems'[id].top = elems[id].top

C11_RightClickLeavesShape == [][C11_Step]_vars

\* Where handleMove puts a shape of the given type for a pointer that is
\* d = <<dx, dy>> away from the press, from the position at the press.
Followed(shapeType, initialX, initialY, d) ==
  <<Max(0, Min(snapToGrid(initialX + d[1]),
               buildArea.width - SHAPE_SIZES[shapeType].width)),
    Max(0, snapToGrid(initialY + d[2]))>>

\* C14: a press on a placed shape whose pointer never goes more than 5 px
\* from the press point leaves the shape where it is, and its release
\* selects the shape and requests the context menu at the press position;
\* once the pointer has gone more than 5 px away the shape follows the
\* pointer, snapped and clamped, and the release neither selects the shape
\* nor requests the menu.
C14_Step ==
  /\ lastOp'.op = "move" /\ lastOp'.id \in PlacedSet =>
       LET id == lastOp'.id
           ctl == elems[id].ctl
           d == <<browser'.pos[1] - ctl.startX, browser'.pos[2] - ctl.startY>>
       IN IF browser'.reach <= 5
          THEN /\ elems'[id].left = ctl.initialX
               /\ elems'[id].top = ctl.initialY
          ELSE <<elems'[id].left, elems'[id].top>> =
                 Followed(elems[id].shapeType, ctl.initialX, ctl.initialY, d)
  /\ lastOp'.op \in {"select", "dragged"} /\ lastOp'.id \in PlacedSet =>
       LET id == lastOp'.id
           ctl == elems[id].ctl
       IN /\ elems'[id].left = elems[id].left
          /\ elems'[id].top = elems[id].top
          /\ IF browser.reach <= 5
             THEN /\ elems'[id].left = ctl.initialX
                  /\ elems'[id].top = ctl.initialY
                  /\ elems'[id].selected
                  /\ timers'.ctx =
                       Append(timers.ctx,
                              [shape |-> id, x |-> ctl.startX, y |-> ctl.startY])
             ELSE /\ elems'[id].selected = elems[id].selected
                  /\ timers'.ctx = timers.ctx

C14_PressAndRelease == [][C14_Step]_vars

Clamp(v, lo, hi) == Max(lo, Min(v, hi))

\* The position of a shape of the given type dropped with the pointer at
\* pos: its centre under the pointer, up to grid snapping.
DropPosition(shapeType, pos) ==
  LET w == SHAPE_SIZES[shapeType].width
      h == SHAPE_SIZES[shapeType].height
      px == pos[1] - buildArea.left
      py == pos[2] - buildArea.top
  IN <<snapToGrid(Clamp(snapToGrid(px - w \div 2), 0, buildArea.width - w)),
       snapToGrid(Max(0, snapToGrid(py - h \div 2)))>>

\* The step adds one shape of the given type at the drop position of pos.
DropsAt(shapeType, pos) ==
  \E id \in SeqToSet(placed') \ PlacedSet :
    /\ placed' = Append(placed, id)
    /\ elems'[id].shapeType = shapeType
    /\ <<elems'[id].left, elems'[id].top>> = DropPosition(shapeType, pos)

\* C15: a mouse drop, and a touch drag released inside the build area,
\* create one shape of the dragged type whose position is the same function
\* of the pointer position: the centre under the pointer, snapped, clamped
\* and snapped again.
C15_Step ==
  /\ lastOp'.op = "drop" => DropsAt(lastOp'.item, browser'.pos)
  /\ lastOp'.op = "touchend" /\ browser.reach > 5 /\ InsideRect(browser.pos) =>
       DropsAt(lastOp'.item, browser.pos)

C15_DropCentresShape == [][C15_Step]_vars

\* A square has been dropped by touch at the lower right corner of the build
\* area, where the clamp and the second snapping both act.
C15_Witness ==
  /\ lastOp.op = "touchend"
  /\ lastOp.item = "square"
  /\ lastOp.id \in PlacedSet
  /\ <<elems[lastOp.id].left, elems[lastOp.id].top>> = <<60, 140>>
  /\ <<60, 140>> =
       DropPosition("square", <<buildArea.left + buildArea.width,
                                buildArea.top + buildArea.height>>)

\* The rotation a shape element shows: 0 while data-rotation is not set.
StoredRotation(el) == IF el.rotation = NoRotation THEN 0 ELSE el.rotation

\* Shape i after four rotate actions in a row, from the current state.
RotatedFourTimes(i) == rotate(rotate(rotate(rotate(State, i), i), i), i).elems[i]

\* C16: a rotate action, from the menu or by ShapeController.rotate, adds
\* 90 degrees modulo 360 to the stored rotation and writes that angle to the
\* SVG; the stored rotation is one of 0, 90, 180, 270; four rotate actions
\* in a row give back the rotation the shape had.
C16_Step ==
  /\ \A i \in SeqToSet(placed') :
       elems'[i].rotation \in {NoRotation, 0, 90, 180, 270}
  /\ lastOp'.op \in {"rotate", "contextmenu"} /\ lastOp'.id \in PlacedSet =>
       LET id == lastOp'.id
       IN /\ elems'[id].rotation = (StoredRotation(elems[id]) + 90) % 360
          /\ elems'[id].transform.kind # "none"
          /\ elems'[id].transform.deg = elems'[id].rotation
  /\ \A i \in PlacedSet :
       /\ StoredRotation(RotatedFourTimes(i)) = StoredRotation(elems[i])
       /\ RotatedFourTimes(i).transform.deg = StoredRotation(elems[i])

C16_RotateBy90 == [][C16_Step]_vars

\* The fourth rotate action on a shape, from the menu, has brought its
\* rotation from 270 back to 0.
C16_Witness ==
  /\ lastOp.op = "rotate"
  /\ lastOp.id \in PlacedSet
  /\ elems[lastOp.id].rotation = 0
  /\ elems[lastOp.id].transform = RotateTransform(0)

\* What the SVG's style.transform shows: the rotate angle and the two scale
\* factors ('' shows as no rotation and no flip).
ShownTransform(el) ==
  [deg |-> el.transform.deg, sx |-> el.transform.sx, sy |-> el.transform.sy]

\* Shape i after the same flip action twice in a row, from the current state.
FlippedTwice(i, direction) == flip(flip(State, i, direction), i, direction).elems[i]

\* C17: the same flip applied twice in a row to a placed shape restores the
\* transform (rotation and scale signs) the shape had.
C17_FlipIsInvolution ==
  \A i \in PlacedSet, direction \in {"horizontal", "vertical"} :
    ShownTransform(FlippedTwice(i, direction)) = ShownTransform(elems[i])

\* C18: a flip leaves the displayed rotation equal to the stored rotation
\* and changes only the sign of the flipped axis; a rotate leaves both scale
\* signs as they were; neither changes the shape's position or type.
C18_Step ==
  LET id == lastOp'.id
      same == /\ elems'[id].left = elems[id].left
              /\ elems'[id].top = elems[id].top
              /\ elems'[id].shapeType = elems[id].shapeType
  IN /\ lastOp'.op \in {"flip-horizontal", "flip-vertical"} /\ id \in PlacedSet =>
          /\ same
          /\ elems'[id].rotation = elems[id].rotation
          /\ elems'[id].transform.deg = StoredRotation(elems'[id])
          /\ elems'[id].transform.sx =
               IF lastOp'.op = "flip-horizontal" THEN -elems[id].transform.sx
               ELSE elems[id].transform.sx
          /\ elems'[id].transform.sy =
               IF lastOp'.op = "flip-vertical" THEN -elems[id].transform.sy
               ELSE elems[id].transform.sy
     /\ lastOp'.op \in {"rotate", "contextmenu"} /\ id \in PlacedSet =>
          /\ same
          /\ elems'[id].transform.sx = elems[id].transform.sx
          /\ elems'[id].transform.sy = elems[id].transform.sy

C18_RotationFlipIndependent == [][C18_Step]_vars

\* C19: at most one placed shape is selected; a click on a shape without a
\* drag selects it and deselects the others; no other step selects a shape.
C19_Step ==
  LET selectedAfter == {i \in SeqToSet(placed') : elems'[i].selected}
  IN /\ Cardinality(selectedAfter) <= 1
     /\ lastOp'.op = "select" /\ lastOp'.id \in PlacedSet =>
          selectedAfter = {lastOp'.id}
     /\ \A i \in selectedAfter \ SelectedSet :
          lastOp'.op = "select" /\ lastOp'.id = i

C19_OneSelected == [][C19_Step]_vars

\* The second of two shapes has been clicked while the menu of the first,
\* clicked before, is still open: the second is the only selected shape.
C19_Witness ==
  /\ lastOp.op = "select"
  /\ Len(placed) = 2
  /\ lastOp.id = placed[2]
  /\ menu.show
  /\ menu.currentShape = placed[1]
  /\ SelectedSet = {placed[2]}

\* C20: while the context menu is visible, and when one of its actions is
\* executed, the shape the menu is for is a shape placed in the build area.
C20_Step ==
  /\ menu'.show /\ menu'.currentShape # NoShape =>
       menu'.currentShape \in SeqToSet(placed')
  /\ lastOp'.op \in MenuActions /\ lastOp'.id # NoShape =>
       lastOp'.id \in PlacedSet

C20_MenuTargetsPlacedShape == [][C20_Step]_vars

\* C12: with nodes missing from the document, start-up and every handler
\* complete without raising an error, and start-up still constructs every
\* manager and registers the listeners of the event bus.
C12_MissingNodeIsSilent ==
  /\ page.errors = {}
  /\ page.started =>
       /\ page.managers = {Managers[i] : i \in 1..Len(Managers)}
       /\ "shapeAdded" \in page.listeners

\* C13: when a step of the capture has failed (loading the library,
\* rendering, encoding, saving or sharing), the fallback message has been
\* shown once and no error has been left unhandled by the time the
\* operation is over.
C13_CaptureFailureShowsFallback ==
  capture.phase = "idle" /\ capture.failed # {} =>
    capture.alerts = 1 /\ capture.unhandled = 0


\* The menu has been hidden and no show request has come since.
Hidden == menu.created /\ ~menu.show /\ menu.currentShape = NoShape

C21_Step ==
  Hidden /\ lastOp'.op # "showmenu" => ~menu'.show /\ menu'.currentShape = NoShape

\* C21: once the context menu has been hidden it stays hidden, with no
\* target shape, until the next show request: no step but show() (a deferred
\* animation-frame callback or timer of an earlier show() included) makes it
\* visible or gives it a target, and it is not visible when print has run.
C21_HiddenStaysHidden ==
  [][C21_Step /\ (lastOp'.op = "print" => ~menu'.show)]_vars

C22_Step ==
  lastOp'.op = "droptext" /\ lastOp'.item \notin PaletteTypes =>
    /\ placed' = placed
    /\ elems' = elems
    /\ supply' = supply
    /\ browser'.uncaught = browser.uncaught

\* C22: a drop whose text names no palette item creates no shape and raises
\* no error: the placed shapes, their attributes, the supply list and the
\* uncaught exceptions are as before.
C22_ForeignDropIsNoOp == [][C22_Step]_vars

\* C23: whenever the promise of Utils.loadScript resolves, the script has
\* finished loading and html2canvas is defined, also for a call made while
\* an earlier load is in flight or after an earlier load failed.
C23_LoadScriptResolvesLoaded == capture.early = 0

\* C24: an image blob a capture produced is delivered exactly once: while
\* the share is pending nothing is delivered yet; once saveImage is over,
\* either navigator.share took it (sharing is supported, the share was not
\* rejected, no download was started) or one download was started, which
\* is the case whenever sharing is not supported or the share was rejected;
\* no object URL is left unrevoked.
C24_DeliveredOnce ==
  /\ capture.urls = 0
  /\ capture.made <= 1
  /\ capture.made = 1 /\ capture.phase = "sharing" =>
       capture.share /\ capture.shared = 0 /\ capture.downloads = 0
  /\ capture.made = 1 /\ capture.phase = "idle" =>
       /\ capture.shared + capture.downloads = 1
       /\ capture.shared = 1 => capture.share /\ "save" \notin capture.failed
       /\ ~capture.share \/ "save" \in capture.failed => capture.downloads = 1

\* A share was rejected and the image was downloaded.
C24_Witness ==
  /\ capture.phase = "idle"
  /\ capture.made = 1
  /\ "save" \in capture.failed
  /\ capture.downloads = 1
  /\ capture.shared = 0

====
